---- MODULE Spec2Model ----
(***************************************************************************)
(* Model of update.py: the NTP monitoring loop (ntp_monitoring_loop), its  *)
(* worker probes (query_ntp_server), the aggregation of a finished probe   *)
(* (process_response) and the sqlite table ntp_data they write.            *)
(*                                                                         *)
(* Units.  The timestamps of an exchange (T1..T4) and the server-reported  *)
(* root delay and root dispersion are whole milliseconds here; the code    *)
(* holds them as seconds and multiplies by 1000.  Every REAL column of     *)
(* ntp_data is held in thousandths of a millisecond, so "x * 1000" of the  *)
(* code is "x * 1000" here and the division by 2 of the offset is exact.   *)
(* The wall clock (datetime.now(ist)) is in whole seconds.                 *)
(***************************************************************************)
EXTENDS Integers, Sequences, FiniteSets, TLC

\* ------------------------------------------------------------------ bounds
\* Number of cycles a monitoring loop is followed for.
MaxCycles == 2
\* The wall clock is followed up to MaxTicks steps of TickLen seconds.
MaxTicks == 3
\* Number of INSERTs that sqlite rejects (sqlite3.Error raised by execute/commit).
MaxSinkFailures == 1
\* In SpecExchange the server and arrival times T2, T3, T4 of an exchange
\* range over 0..MaxStamp ms.
MaxStamp == 3

\* ---------------------------------------------------------- configuration
\* The roster (update.py lists 15 servers; the model keeps two of them, which
\* the display order of /api/realtime puts the other way round).
ntp_servers == <<"157.20.66.8", "time.nist.gov">>

Servers == {ntp_servers[i] : i \in 1..Len(ntp_servers)}

\* The target interval of a cycle in seconds: "300 - elapsed".
TargetInterval == 300

\* Granularity of the wall clock: half the target interval.
TickLen == TargetInterval \div 2

MaxTime == MaxTicks * TickLen

\* The processes that execute the module: 1 is the process the user starts,
\* 2 is the child that the debug reloader of app.run(debug=True) starts.
\* Spec follows the monitoring loop of process 1 with every failure the
\* code can meet; SpecMain follows the start of the module as a script,
\* where both processes run the loop over the same table.
Procs == {1, 2}

\* The ntplib response a server gives when it answers: T1..T4, root delay
\* and dispersion in ms, stratum, and the log2 precision exponent.  The
\* second exchange has a negative delay.
Responses(s) ==
    IF s = ntp_servers[1]
    THEN { [T1 |-> 0, T2 |-> 15, T3 |-> 16, T4 |-> 20,
            root_delay |-> 3, root_dispersion |-> 7, stratum |-> 1, precision |-> -3] }
    ELSE { [T1 |-> 0, T2 |-> 5, T3 |-> 30, T4 |-> 20,
            root_delay |-> 0, root_dispersion |-> 2, stratum |-> 2, precision |-> -6] }

NoResponse ==
    [T1 |-> 0, T2 |-> 0, T3 |-> 0, T4 |-> 0,
     root_delay |-> 0, root_dispersion |-> 0, stratum |-> 0, precision |-> 0]

VARIABLES
    clock,        \* wall clock, seconds: datetime.now(ist)
    store,        \* table ntp_data: sequence of rows, id = position
    main,         \* per process: position of the main thread in the module
    pc,           \* per process: position of the monitoring thread
    cycle,        \* per process: number of the cycle of the monitoring thread
    cycle_start,  \* per process: local cycle_start
    fut,          \* per process, per server: the future of executor.submit
    delays,       \* per process: local list delays
    offsets,      \* per process: local list offsets
    jitter,       \* per process: local jitter, as the variance it is the root of
    offset_mean,  \* per process: local offset_mean, as a fraction
    elapsed,      \* per process: local elapsed
    sleep_time,   \* per process: local sleep_time
    sinkFailures  \* number of INSERTs rejected so far

vars == <<clock, store, main, pc, cycle, cycle_start, fut, delays, offsets,
          jitter, offset_mean, elapsed, sleep_time, sinkFailures>>

loopVars == <<pc, cycle, cycle_start, delays, offsets, jitter, offset_mean,
              elapsed, sleep_time>>

\* ------------------------------------------------------------ pure helpers
Max(a, b) == IF a >= b THEN a ELSE b

RECURSIVE Pow2(_)
Pow2(n) == IF n = 0 THEN 1 ELSE 2 * Pow2(n - 1)

RECURSIVE SumSeq(_)
SumSeq(s) == IF s = <<>> THEN 0 ELSE Head(s) + SumSeq(Tail(s))

RECURSIVE SumSqSeq(_)
SumSqSeq(s) == IF s = <<>> THEN 0 ELSE Head(s) * Head(s) + SumSqSeq(Tail(s))

Frac(n, d) == [num |-> n, den |-> d]

Zero == Frac(0, 1)

\* statistics.mean(xs): the sum over the count, kept as a fraction.
mean(xs) == Frac(SumSeq(xs), Len(xs))

\* Variant: the population variance, over n * n.
pstdev(xs) ==
    Frac(Len(xs) * SumSqSeq(xs) - SumSeq(xs) * SumSeq(xs), Len(xs) * Len(xs))

\* statistics.stdev(xs), for two or more values: the root of the sample
\* variance (n * sum(x^2) - sum(x)^2) / (n * (n - 1)); the model keeps the
\* variance.
stdev(xs) ==
    Frac(Len(xs) * SumSqSeq(xs) - SumSeq(xs) * SumSeq(xs), Len(xs) * (Len(xs) - 1))

\* datetime.now(ist)
Now == clock

\* ------------------------------------------------------- process_response
\* offset = ((T2 - T1) + (T3 - T4)) / 2 * 1000
Offset(r) == (((r.T2 - r.T1) + (r.T3 - r.T4)) * 1000) \div 2

\* Variant: a negative delay is stored as 0.
DelayClamped(r) == Max(0, ((r.T4 - r.T1) - (r.T3 - r.T2)) * 1000)

\* delay = ((T4 - T1) - (T3 - T2)) * 1000
Delay(r) == ((r.T4 - r.T1) - (r.T3 - r.T2)) * 1000

\* response_time = (T3 - T2) * 1000
ResponseTime(r) == (r.T3 - r.T2) * 1000

\* precision = (2 ** response.precision) * 1000
Precision(r) ==
    IF r.precision >= 0
    THEN Pow2(r.precision) * 1000 * 1000
    ELSE (1000 * 1000) \div Pow2(0 - r.precision)

\* ------------------------------------------------------------- the table
\* Variant: ids handed out downwards.
NextIdDescending == 0 - Len(store)

\* id INTEGER PRIMARY KEY AUTOINCREMENT: one more than every id given so far
\* (the program never deletes a row).
NextId == Len(store) + 1

\* A row of ntp_data.  proc and cycle are history fields that the table does
\* not have: the process and the cycle whose code made the INSERT.
Row(ts, server, off, del, rdel, rdisp, strat, resp, prec, status, p) ==
    [id |-> NextId, timestamp |-> ts, server |-> server,
     offset_ms |-> off, delay_ms |-> del, root_delay_ms |-> rdel,
     root_dispersion_ms |-> rdisp, stratum |-> strat,
     response_time_ms |-> resp, precision_ms |-> prec, status |-> status,
     proc |-> p, cycle |-> cycle[p]]

\* Variant: the Error row carries stratum 16 (unsynchronised).
ErrorRowStratum16(p, server, timestamp) ==
    Row(timestamp, server, 0, 0, 0, 0, 16, 0, 0, "Error", p)

\* The VALUES of the INSERT of query_ntp_server.
ErrorRow(p, server, timestamp) ==
    Row(timestamp, server, 0, 0, 0, 0, 0, 0, 0, "Error", p)

\* The VALUES of the INSERT of process_response.
OnlineRow(p, data) ==
    Row(data.timestamp, data.server, Offset(data.response), Delay(data.response),
        data.response.root_delay * 1000, data.response.root_dispersion * 1000,
        data.response.stratum, ResponseTime(data.response),
        Precision(data.response), "Online", p)

\* c.execute(INSERT ...); conn.commit()
Insert(row) == store' = Append(store, row)

\* sqlite may reject an INSERT (database is locked, disk full, ...).
SinkMayFail == sinkFailures < MaxSinkFailures

\* ------------------------------------------------------------- futures
Idle == [state |-> "idle", kind |-> "none", server |-> "", timestamp |-> 0,
         response |-> NoResponse, consumed |-> FALSE]

\* executor.submit(query_ntp_server, server): the work item is queued.
Submitted(s) == [Idle EXCEPT !.state = "queued", !.server = s]

\* Variant: a pool one worker short of the roster.
max_workers_short == Len(ntp_servers) - 1

\* ThreadPoolExecutor(max_workers=len(ntp_servers))
max_workers == Len(ntp_servers)

\* Position of a server in the roster.
Position(s) == CHOOSE i \in 1..Len(ntp_servers) : ntp_servers[i] = s

\* The pool runs queued work items, in the order of their submission, while
\* it has fewer than max_workers busy workers.  f: the futures of one pool.
RECURSIVE Dispatch(_)
Dispatch(f) ==
    LET busy == {s \in Servers : f[s].state = "running"}
        queued == {s \in Servers : f[s].state = "queued"}
    IN IF queued = {} \/ Cardinality(busy) >= max_workers
       THEN f
       ELSE LET s == CHOOSE x \in queued :
                        \A y \in queued : Position(x) <= Position(y)
            IN Dispatch([f EXCEPT ![s].state = "running"])

\* Variant: the sample carries the start of the cycle.
ProbeTimestampCycleStart(p) == cycle_start[p]

\* The timestamp query_ntp_server takes once client.request has returned or
\* raised.
ProbeTimestamp(p) == Now

\* return {'server': ..., 'response': ..., 'timestamp': ...}
Returned(f, ts, ex) ==
    [f EXCEPT !.state = "done", !.kind = "data", !.timestamp = ts, !.response = ex]

\* Variant: a failed probe is issued again at once.
ReturnedNoneRetry(f) == [f EXCEPT !.state = "running", !.kind = "none"]

\* return None
ReturnedNone(f) == [f EXCEPT !.state = "done", !.kind = "none"]

\* The INSERT of the except branch raised: the exception is the future's result.
Raised(f) == [f EXCEPT !.state = "done", !.kind = "exc"]

InFlight(p) == {s \in Servers : fut[p][s].state = "running"}

\* Work items that no worker has taken yet.
Queued(p) == {s \in Servers : fut[p][s].state = "queued"}

\* Variant: the results are taken only once every probe has finished.
CompletedAfterAll(p) ==
    IF InFlight(p) = {} /\ Queued(p) = {}
    THEN {s \in Servers : fut[p][s].state = "done" /\ ~fut[p][s].consumed}
    ELSE {}

\* Futures that as_completed can yield next.
Completed(p) == {s \in Servers : fut[p][s].state = "done" /\ ~fut[p][s].consumed}

\* Variant: the loop ends when no finished future is left to process.
ExhaustedNoWait(p) == Completed(p) = {}

\* as_completed is exhausted: every submitted future has been yielded.
Exhausted(p) == \A s \in Servers : fut[p][s].state = "done" /\ fut[p][s].consumed

\* ------------------------------------------------------------ the summary
\* jitter = stdev(delays) if len(delays) > 1 else 0
Jitter(ds) == IF Len(ds) > 1 THEN stdev(ds) ELSE Zero

\* Variant: a single offset is not taken.
OffsetMeanNoSingle(ds, os) == IF Len(ds) > 1 THEN mean(os) ELSE Zero

\* offset_mean = mean(offsets) if len(delays) > 1
\*               else (offsets[0] if offsets else 0)
OffsetMean(ds, os) ==
    IF Len(ds) > 1 THEN mean(os)
    ELSE IF os # <<>> THEN Frac(os[1], 1) ELSE Zero

\* Variant: the difference without max.
SleepTimeUnclamped(e) == TargetInterval - e

\* sleep_time = max(0, 300 - elapsed)
SleepTime(e) == Max(0, TargetInterval - e)

\* The wall-clock instant at which time.sleep(sleep_time) returns.
WakeAt(p) == cycle_start[p] + elapsed[p] + sleep_time[p]

\* ------------------------------------------------------------------- Init
Init ==
    /\ clock = 0
    /\ store = <<>>
    /\ main = [p \in Procs |-> IF p = 1 THEN "module" ELSE "off"]
    /\ pc = [p \in Procs |-> "off"]
    /\ cycle = [p \in Procs |-> 0]
    /\ cycle_start = [p \in Procs |-> 0]
    /\ fut = [p \in Procs |-> [s \in Servers |-> Idle]]
    /\ delays = [p \in Procs |-> <<>>]
    /\ offsets = [p \in Procs |-> <<>>]
    /\ jitter = [p \in Procs |-> Zero]
    /\ offset_mean = [p \in Procs |-> Zero]
    /\ elapsed = [p \in Procs |-> 0]
    /\ sleep_time = [p \in Procs |-> 0]
    /\ sinkFailures = 0

\* ------------------------------------------------------------ module level
\* threading.Thread(target=ntp_monitoring_loop, daemon=True).start()
StartThread(p) ==
    /\ main[p] = "module"
    /\ main' = [main EXCEPT ![p] = "loaded"]
    /\ pc' = [pc EXCEPT ![p] = "ready"]
    /\ UNCHANGED <<clock, store, cycle, cycle_start, fut, delays, offsets,
                   jitter, offset_mean, elapsed, sleep_time, sinkFailures>>

\* if __name__ == '__main__': app.run(debug=True, ...).  In the process the
\* user started, debug=True turns the reloader on: it runs the module again
\* in a child process and waits for it, while the monitoring thread of this
\* process keeps running.  The child serves the requests.
RunMain(p) ==
    /\ main[p] = "loaded"
    /\ main' = [q \in Procs |->
                  IF q = p THEN "serving"
                  ELSE IF p = 1 /\ main[q] = "off" THEN "module" ELSE main[q]]
    /\ UNCHANGED <<clock, store, fut, sinkFailures>>
    /\ UNCHANGED loopVars

\* The module is imported (a WSGI server, flask run): __name__ is not
\* '__main__' and app.run is not called here.
Imported(p) ==
    /\ p = 1
    /\ main[p] = "loaded"
    /\ main' = [main EXCEPT ![p] = "serving"]
    /\ UNCHANGED <<clock, store, fut, sinkFailures>>
    /\ UNCHANGED loopVars

\* ------------------------------------------------------ ntp_monitoring_loop
\* time.sleep has returned (or the thread has just started): the next
\* iteration of "while True" takes cycle_start and submits one
\* query_ntp_server per server.
StartCycle(p) ==
    /\ \/ pc[p] = "ready"
       \/ pc[p] = "sleep" /\ clock >= WakeAt(p)
    /\ cycle[p] < MaxCycles
    /\ pc' = [pc EXCEPT ![p] = "collect"]
    /\ cycle' = [cycle EXCEPT ![p] = @ + 1]
    /\ cycle_start' = [cycle_start EXCEPT ![p] = Now]
    /\ delays' = [delays EXCEPT ![p] = <<>>]
    /\ offsets' = [offsets EXCEPT ![p] = <<>>]
    /\ fut' = [fut EXCEPT ![p] = Dispatch([s \in Servers |-> Submitted(s)])]
    /\ UNCHANGED <<clock, store, main, jitter, offset_mean, elapsed, sleep_time,
                   sinkFailures>>

\* Variant: the INSERT stands after the try statement and runs on success too.
TryBranchInsert(p, s) == Insert(ErrorRow(p, s, Now))

\* The try branch of query_ntp_server makes no INSERT.
TryBranchStore(p, s) == store' = store

\* Variant: the except branch only logs.
ExceptBranchNoInsert(p, s) == store' = store

\* The except branch of query_ntp_server inserts the Error row.
ExceptBranchStore(p, s) == Insert(ErrorRow(p, s, ProbeTimestamp(p)))

\* query_ntp_server, try branch: client.request returned a response.
QueryOk(p, s, ex) ==
    /\ fut[p][s].state = "running"
    /\ fut' = [fut EXCEPT ![p] =
                  Dispatch([fut[p] EXCEPT ![s] = Returned(fut[p][s], ProbeTimestamp(p), ex)])]
    /\ TryBranchStore(p, s)
    /\ UNCHANGED <<clock, main, sinkFailures>>
    /\ UNCHANGED loopVars

\* query_ntp_server, except branch: client.request raised (timeout, name
\* resolution, malformed packet); the worker inserts the Error row itself.
QueryFail(p, s) ==
    /\ fut[p][s].state = "running"
    /\ ExceptBranchStore(p, s)
    /\ fut' = [fut EXCEPT ![p] = Dispatch([fut[p] EXCEPT ![s] = ReturnedNone(fut[p][s])])]
    /\ UNCHANGED <<clock, main, sinkFailures>>
    /\ UNCHANGED loopVars

\* query_ntp_server, except branch, and sqlite rejects the INSERT: nothing
\* catches the sqlite3 error, it becomes the result of the future.
QueryFailSinkError(p, s) ==
    /\ fut[p][s].state = "running"
    /\ SinkMayFail
    /\ sinkFailures' = sinkFailures + 1
    /\ fut' = [fut EXCEPT ![p] = Dispatch([fut[p] EXCEPT ![s] = Raised(fut[p][s])])]
    /\ UNCHANGED <<clock, store, main>>
    /\ UNCHANGED loopVars

\* Body of "for future in as_completed(...)": the probe returned None, so
\* process_response returns None and nothing is appended.
CollectNone(p, s) ==
    /\ pc[p] = "collect"
    /\ s \in Completed(p)
    /\ fut[p][s].kind = "none"
    /\ fut' = [fut EXCEPT ![p][s].consumed = TRUE]
    /\ UNCHANGED <<clock, store, main, sinkFailures>>
    /\ UNCHANGED loopVars

\* Body of the for loop: the probe returned a response; process_response
\* inserts the Online row and its delay and offset are appended.
CollectData(p, s) ==
    /\ pc[p] = "collect"
    /\ s \in Completed(p)
    /\ fut[p][s].kind = "data"
    /\ Insert(OnlineRow(p, fut[p][s]))
    /\ delays' = [delays EXCEPT ![p] = Append(@, Delay(fut[p][s].response))]
    /\ offsets' = [offsets EXCEPT ![p] = Append(@, Offset(fut[p][s].response))]
    /\ fut' = [fut EXCEPT ![p][s].consumed = TRUE]
    /\ UNCHANGED <<clock, main, pc, cycle, cycle_start, jitter, offset_mean,
                   elapsed, sleep_time, sinkFailures>>

\* Body of the for loop: sqlite rejects the INSERT of process_response; the
\* sqlite3 error leaves the for loop and the with block.
CollectDataSinkError(p, s) ==
    /\ pc[p] = "collect"
    /\ s \in Completed(p)
    /\ fut[p][s].kind = "data"
    /\ SinkMayFail
    /\ sinkFailures' = sinkFailures + 1
    /\ pc' = [pc EXCEPT ![p] = "unwind"]
    /\ fut' = [fut EXCEPT ![p][s].consumed = TRUE]
    /\ UNCHANGED <<clock, store, main, cycle, cycle_start, delays, offsets,
                   jitter, offset_mean, elapsed, sleep_time>>

\* Body of the for loop: future.result() re-raises the sqlite3 error of the
\* worker; it leaves the for loop and the with block.
CollectRaised(p, s) ==
    /\ pc[p] = "collect"
    /\ s \in Completed(p)
    /\ fut[p][s].kind = "exc"
    /\ pc' = [pc EXCEPT ![p] = "unwind"]
    /\ fut' = [fut EXCEPT ![p][s].consumed = TRUE]
    /\ UNCHANGED <<clock, store, main, cycle, cycle_start, delays, offsets,
                   jitter, offset_mean, elapsed, sleep_time, sinkFailures>>

\* An exception is leaving the with block: ThreadPoolExecutor.__exit__ waits
\* for the workers still running (shutdown(wait=True)), then the exception
\* leaves "while True" and the monitoring thread ends.
Unwind(p) ==
    /\ pc[p] = "unwind"
    /\ InFlight(p) = {}
    /\ Queued(p) = {}
    /\ pc' = [pc EXCEPT ![p] = "dead"]
    /\ UNCHANGED <<clock, store, main, cycle, cycle_start, fut, delays, offsets,
                   jitter, offset_mean, elapsed, sleep_time, sinkFailures>>

\* as_completed is exhausted, the with block is left, and jitter and
\* offset_mean are computed and printed.
Summarize(p) ==
    /\ pc[p] = "collect"
    /\ Exhausted(p)
    /\ jitter' = [jitter EXCEPT ![p] = Jitter(delays[p])]
    /\ offset_mean' = [offset_mean EXCEPT ![p] = OffsetMean(delays[p], offsets[p])]
    /\ pc' = [pc EXCEPT ![p] = "summary"]
    /\ UNCHANGED <<clock, store, main, cycle, cycle_start, fut, delays, offsets,
                   elapsed, sleep_time, sinkFailures>>

\* elapsed = (datetime.now(ist) - cycle_start).total_seconds();
\* sleep_time = max(0, 300 - elapsed); time.sleep(sleep_time)
Sleep(p) ==
    /\ pc[p] = "summary"
    /\ elapsed' = [elapsed EXCEPT ![p] = Now - cycle_start[p]]
    /\ sleep_time' = [sleep_time EXCEPT ![p] = SleepTime(Now - cycle_start[p])]
    /\ pc' = [pc EXCEPT ![p] = "sleep"]
    /\ UNCHANGED <<clock, store, main, cycle, cycle_start, fut, delays, offsets,
                   jitter, offset_mean, sinkFailures>>

\* ------------------------------------------------------------------- time
\* A sleeping thread that has a next cycle to run wakes when its sleep is
\* over: the clock does not pass that instant before it has.
Due(p) == pc[p] = "sleep" /\ cycle[p] < MaxCycles

\* Time passes while a probe waits for its server or a thread sleeps; the
\* statements between take no time.
Waiting == \E p \in Procs : InFlight(p) # {} \/ Due(p)

Tick ==
    /\ clock + TickLen <= MaxTime
    /\ Waiting
    /\ \A p \in Procs : Due(p) => clock + TickLen <= WakeAt(p)
    /\ clock' = clock + TickLen
    /\ UNCHANGED <<store, main, fut, sinkFailures>>
    /\ UNCHANGED loopVars

\* --------------------------------------------------------- /api/realtime
\* preferred_order of get_realtime_data.
preferred_order ==
    <<"14.139.60.103", "14.139.60.106", "14.139.60.107", "time.nplindia.in",
      "time.nplindia.org", "samay1.nic.in", "samay2.nic.in", "time.nist.gov",
      "pool.ntp.org", "time.windows.com", "time.google.com",
      "asia.pool.ntp.org", "uk.pool.ntp.org", "157.20.66.8", "157.20.67.8">>

\* f"{x:.3f}" of a value held in thousandths: sign, whole part and three
\* decimals.
Fmt3(x) ==
    LET a == IF x < 0 THEN 0 - x ELSE x
    IN [neg |-> x < 0, whole |-> a \div 1000, frac |-> a % 1000]

\* The dict that get_realtime_data and get_history build from a row: no id
\* and no stratum.
RowDict(r) ==
    [timestamp |-> r.timestamp, server |-> r.server,
     offset_ms |-> Fmt3(r.offset_ms), delay_ms |-> Fmt3(r.delay_ms),
     root_delay_ms |-> Fmt3(r.root_delay_ms),
     root_dispersion_ms |-> Fmt3(r.root_dispersion_ms),
     response_time_ms |-> Fmt3(r.response_time_ms),
     precision_ms |-> Fmt3(r.precision_ms), status |-> r.status]

\* Variant: SELECT MIN(t2.id).
MinIdOf(s) ==
    CHOOSE m \in {store[i].id : i \in {j \in 1..Len(store) : store[j].server = s}} :
        \A i \in 1..Len(store) : store[i].server = s => store[i].id >= m

\* SELECT MAX(t2.id) FROM ntp_data t2 WHERE t2.server = s
MaxIdOf(s) ==
    CHOOSE m \in {store[i].id : i \in {j \in 1..Len(store) : store[j].server = s}} :
        \A i \in 1..Len(store) : store[i].server = s => store[i].id <= m

\* SELECT t1.* FROM ntp_data t1 WHERE t1.id = (SELECT MAX(t2.id) ...), in
\* the order of the table.
LatestRows == SelectSeq(store, LAMBDA r : r.id = MaxIdOf(r.server))

\* key of data.sort: preferred_order.index(server), 999 for other servers.
SortKey(d) ==
    IF \E i \in 1..Len(preferred_order) : preferred_order[i] = d.server
    THEN (CHOOSE i \in 1..Len(preferred_order) : preferred_order[i] = d.server) - 1
    ELSE 999

\* list.sort(key=...): a stable sort by ascending key.
RECURSIVE SortByKey(_)
SortByKey(ds) ==
    IF ds = <<>> THEN <<>>
    ELSE LET front == SortByKey(SubSeq(ds, 1, Len(ds) - 1))
             d == ds[Len(ds)]
             c == Cardinality({i \in 1..Len(front) : SortKey(front[i]) <= SortKey(d)})
         IN SubSeq(front, 1, c) \o <<d>> \o SubSeq(front, c + 1, Len(front))

\* The list that /api/realtime returns.
get_realtime_data ==
    SortByKey([i \in 1..Len(LatestRows) |-> RowDict(LatestRows[i])])

\* ---------------------------------------------------------- /api/history
\* LIMIT 10
HistoryLimit == 10

\* WHERE server = ?  (positions of the rows in the table)
RowsFor(server) == {i \in 1..Len(store) : store[i].server = server}

\* ORDER BY timestamp DESC: the orders in which sqlite may hand out the rows.
\* The timestamps are texts of one fixed format, 'YYYY-MM-DD HH:MM:SS', so
\* their order as texts is their order as instants; SQL leaves the order of
\* rows with equal timestamps open.
OrderByTimestampDesc(S) ==
    {f \in [1..Cardinality(S) -> S] :
        /\ \A k, l \in 1..Cardinality(S) : k # l => f[k] # f[l]
        /\ \A k, l \in 1..Cardinality(S) :
             k < l => store[f[k]].timestamp >= store[f[l]].timestamp}

\* The lists that /api/history?server=... may return.
get_history(server) ==
    {[k \in 1..(IF Len(f) < HistoryLimit THEN Len(f) ELSE HistoryLimit) |->
         RowDict(store[f[k]])] : f \in OrderByTimestampDesc(RowsFor(server))}

LoopStep ==
    \/ \E p \in Procs : StartCycle(p)
    \/ \E p \in Procs, s \in Servers : \E ex \in Responses(s) : QueryOk(p, s, ex)
    \/ \E p \in Procs, s \in Servers : QueryFail(p, s)
    \/ \E p \in Procs, s \in Servers : CollectNone(p, s)
    \/ \E p \in Procs, s \in Servers : CollectData(p, s)
    \/ \E p \in Procs : Summarize(p)
    \/ \E p \in Procs : Sleep(p)

SinkErrorStep ==
    \/ \E p \in Procs, s \in Servers : QueryFailSinkError(p, s)
    \/ \E p \in Procs, s \in Servers : CollectDataSinkError(p, s)
    \/ \E p \in Procs, s \in Servers : CollectRaised(p, s)
    \/ \E p \in Procs : Unwind(p)

\* The module imported by a server process: one monitoring loop.
Next ==
    \/ \E p \in Procs : StartThread(p)
    \/ \E p \in Procs : Imported(p)
    \/ LoopStep
    \/ SinkErrorStep
    \/ Tick

Spec == Init /\ [][Next]_vars

\* The same under fair scheduling: the threads of the pool and the monitoring
\* thread are all scheduled, so a step that can be taken is taken.
FairSpec == Spec /\ WF_vars(Next)

\* The module run as a script (python update.py): the reloader starts the
\* second process.  The first cycle of each loop is followed, with a store
\* that accepts every INSERT.
NextMain ==
    \/ \E p \in Procs : StartThread(p)
    \/ \E p \in Procs : RunMain(p)
    \/ LoopStep

SpecMain == Init /\ [][NextMain]_vars

\* ------------------------------------------------------------ exchanges
\* The responses ntplib may hand to process_response: the request leaves at
\* T1 = 0 and the three other instants are free, the clocks of client and
\* server being unrelated.
Exchanges(s) ==
    {[r EXCEPT !.T2 = t[1], !.T3 = t[2], !.T4 = t[3]] :
        r \in Responses(s), t \in (0..MaxStamp) \X (0..MaxStamp) \X (0..MaxStamp)}

\* The first cycle at the moment every probe has returned its response and
\* the for loop over as_completed has not taken a result yet.
InitExchange ==
    /\ clock = 0
    /\ store = <<>>
    /\ main = [p \in Procs |-> IF p = 1 THEN "serving" ELSE "off"]
    /\ pc = [p \in Procs |-> IF p = 1 THEN "collect" ELSE "off"]
    /\ cycle = [p \in Procs |-> IF p = 1 THEN 1 ELSE 0]
    /\ cycle_start = [p \in Procs |-> 0]
    /\ \E ex \in [Servers -> UNION {Exchanges(s) : s \in Servers}] :
         /\ \A s \in Servers : ex[s] \in Exchanges(s)
         /\ fut = [p \in Procs |-> [s \in Servers |->
                     IF p = 1 THEN Returned(Submitted(s), 0, ex[s]) ELSE Idle]]
    /\ delays = [p \in Procs |-> <<>>]
    /\ offsets = [p \in Procs |-> <<>>]
    /\ jitter = [p \in Procs |-> Zero]
    /\ offset_mean = [p \in Procs |-> Zero]
    /\ elapsed = [p \in Procs |-> 0]
    /\ sleep_time = [p \in Procs |-> 0]
    /\ sinkFailures = 0

\* The for loop over as_completed, the summary and the sleep of that cycle.
NextExchange ==
    \/ \E s \in Servers : CollectData(1, s)
    \/ Summarize(1)
    \/ Sleep(1)

SpecExchange == InitExchange /\ [][NextExchange]_vars

TypeOK ==
    /\ clock \in 0..MaxTime
    /\ \A p \in Procs :
         pc[p] \in {"off", "ready", "collect", "summary", "sleep", "unwind", "dead"}

\* ================================================================= claims
\* Positions of the rows that the code of cycle k of process p inserted for
\* server s.
RowsOf(p, k, s) ==
    {i \in 1..Len(store) :
        store[i].proc = p /\ store[i].cycle = k /\ store[i].server = s}

\* Cycle k of process p has run to its summary.
Summarised(p, k) ==
    /\ k \in 1..cycle[p]
    /\ k < cycle[p] \/ pc[p] \in {"summary", "sleep"}

\* Cycle cycle[p] of process p is over: the loop sleeps after its summary,
\* or an exception has ended the thread and no worker is left.
CycleOver(p) == pc[p] \in {"sleep", "dead"}

\* The store rejected the INSERT of server s in the current cycle of p.
SinkRejected(p, s) ==
    \/ fut[p][s].kind = "exc"
    \/ /\ fut[p][s].kind = "data"
       /\ fut[p][s].consumed
       /\ RowsOf(p, cycle[p], s) = {}

\* C1: for every cycle that has run to its summary and every server of the
\* roster, the store holds exactly one row written for that server in that
\* cycle.
C1_OneRowPerServerAndCycle ==
    \A p \in Procs : \A k \in 1..cycle[p] : \A s \in Servers :
        Summarised(p, k) => Cardinality(RowsOf(p, k, s)) = 1

\* A second cycle has run to its summary, with an Online and an Error row.
C1_Witness ==
    /\ Summarised(1, 2)
    /\ \E s1, s2 \in Servers :
         /\ \E i \in RowsOf(1, 2, s1) : store[i].status = "Online"
         /\ \E i \in RowsOf(1, 2, s2) : store[i].status = "Error"

\* C2: when the store rejected the INSERT of one server in a cycle, every
\* other server of the roster has a row of that cycle once the cycle is over.
C2_SiblingsStillAppended ==
    \A p \in Procs : \A s \in Servers :
        CycleOver(p) /\ SinkRejected(p, s) =>
            \A s2 \in Servers \ {s} : RowsOf(p, cycle[p], s2) # {}

\* C3: no failure of a sample ends the monitoring loop: its thread is never
\* ended by an exception.
C3_LoopNeverEnds == \A p \in Procs : pc[p] \notin {"unwind", "dead"}

\* A cycle of process p is active: its probes are out or being aggregated,
\* its summary is not computed yet.
CycleActive(p) == pc[p] \in {"collect", "unwind"}

\* C4: at most one cycle is active at any time.
C4_CyclesSerialized == Cardinality({p \in Procs : CycleActive(p)}) <= 1

\* C5: after a cycle the loop sleeps max(0, TargetInterval - elapsed), where
\* elapsed runs from the cycle's start to the end of its summary; the next
\* cycle starts at once when elapsed >= TargetInterval and TargetInterval
\* after the previous start otherwise.
C5_ResidualSleep ==
    [][\A p \in Procs :
         /\ (pc[p] = "summary" /\ pc'[p] = "sleep") =>
                /\ elapsed'[p] = clock - cycle_start[p]
                /\ sleep_time'[p] = IF elapsed'[p] >= TargetInterval
                                    THEN 0
                                    ELSE TargetInterval - elapsed'[p]
         /\ (pc[p] = "sleep" /\ pc'[p] = "collect") =>
                cycle_start'[p] = IF elapsed[p] >= TargetInterval
                                  THEN cycle_start[p] + elapsed[p]
                                  ELSE cycle_start[p] + TargetInterval]_vars

\* A first cycle took longer than the target interval and the second cycle
\* started with no sleep.
C5_Witness ==
    /\ cycle[1] = 2
    /\ pc[1] = "collect"
    /\ elapsed[1] > TargetInterval
    /\ sleep_time[1] = 0
    /\ cycle_start[1] = elapsed[1]

\* C6: when the summary of a cycle is computed, and when the residual sleep
\* is measured, every probe of that cycle has finished.
C6_SummaryAfterAllProbes ==
    \A p \in Procs :
        pc[p] \in {"summary", "sleep"} =>
            \A s \in Servers : fut[p][s].state = "done"

\* A summary is computed after a probe that finished later than the cycle
\* started.
C6_Witness ==
    /\ pc[1] = "summary"
    /\ \E s \in Servers :
         fut[1][s].kind = "data" /\ fut[1][s].timestamp > cycle_start[1]

\* The probe of server s of process p finishes in this step.
ProbeEnds(p, s) == fut[p][s].state = "running" /\ fut'[p][s].state = "done"

\* This step appends a row for server s of process p.
Appends(p, s) ==
    /\ Len(store') = Len(store) + 1
    /\ store'[Len(store')].proc = p
    /\ store'[Len(store')].server = s

NewRow == store'[Len(store')]

\* C7 as stated: every row written during a cycle carries cycle_start.
C7_TimestampIsCycleStart ==
    \A i \in 1..Len(store) :
        store[i].cycle = cycle[store[i].proc] =>
            store[i].timestamp = cycle_start[store[i].proc]

\* C7 as amended: every row carries the wall-clock instant at which its own
\* probe finished, which is not earlier than the start of its cycle.
C7_TimestampIsProbeEnd ==
    [][\A p \in Procs : \A s \in Servers :
         /\ (ProbeEnds(p, s) /\ fut'[p][s].kind = "data") =>
                fut'[p][s].timestamp = clock
         /\ (ProbeEnds(p, s) /\ fut'[p][s].kind = "none") =>
                Appends(p, s) /\ NewRow.timestamp = clock
         /\ Appends(p, s) =>
                /\ cycle_start[p] <= NewRow.timestamp
                /\ NewRow.status = "Online" =>
                       NewRow.timestamp = fut[p][s].timestamp]_vars

\* Two rows of one cycle carry different timestamps.
C7_Witness ==
    \E i, j \in 1..Len(store) :
        /\ store[i].proc = store[j].proc
        /\ store[i].cycle = store[j].cycle
        /\ store[i].timestamp = cycle_start[store[i].proc]
        /\ store[j].timestamp > cycle_start[store[i].proc]
        /\ store[i].cycle = cycle[store[i].proc]

\* C8 as stated: a probe that finishes leaves the store unchanged.
C8_ProbeLeavesStore ==
    [][(\E p \in Procs : \E s \in Servers : ProbeEnds(p, s)) => store' = store]_vars

\* C8 as amended: a probe that returns a response leaves the store unchanged
\* and its Online row is appended by the aggregator once it has the probe's
\* outcome; a probe that fails appends its own Error row.
C8_ProbeWritesOnlyOnFailure ==
    [][\A p \in Procs : \A s \in Servers :
         /\ (ProbeEnds(p, s) /\ fut'[p][s].kind # "none") => store' = store
         /\ (ProbeEnds(p, s) /\ fut'[p][s].kind = "none") =>
                Appends(p, s) /\ NewRow.status = "Error"
         /\ (Appends(p, s) /\ NewRow.status = "Online") =>
                /\ pc[p] = "collect"
                /\ fut[p][s].state = "done"
                /\ fut[p][s].kind = "data"
                /\ ~fut[p][s].consumed
                /\ fut'[p][s].consumed]_vars

\* The Error row of a failed probe is in the store before the aggregator
\* has taken the probe's outcome, and an Online row is in the store too.
C8_Witness ==
    /\ \E s \in Servers :
         /\ fut[1][s].kind = "none"
         /\ fut[1][s].state = "done"
         /\ ~fut[1][s].consumed
         /\ RowsOf(1, cycle[1], s) # {}
    /\ \E i \in 1..Len(store) : store[i].status = "Online"

\* C9: a row is Online exactly when its probe returned a response and Error
\* exactly when its probe failed, and every numeric field of an Error row
\* is 0.
C9_StatusMatchesOutcome ==
    \A i \in 1..Len(store) :
        LET r == store[i] IN
        /\ r.status \in {"Online", "Error"}
        /\ r.cycle = cycle[r.proc] =>
               /\ r.status = "Online" <=> fut[r.proc][r.server].kind = "data"
               /\ r.status = "Error" <=> fut[r.proc][r.server].kind = "none"
        /\ r.status = "Error" =>
               /\ r.offset_ms = 0
               /\ r.delay_ms = 0
               /\ r.root_delay_ms = 0
               /\ r.root_dispersion_ms = 0
               /\ r.stratum = 0
               /\ r.response_time_ms = 0
               /\ r.precision_ms = 0

\* One cycle has written an Online row and an Error row.
C9_Witness ==
    \E i, j \in 1..Len(store) :
        /\ store[i].status = "Online"
        /\ store[j].status = "Error"
        /\ store[i].cycle = store[j].cycle
        /\ store[i].proc = store[j].proc

\* Every probe of the current cycle of process p has failed.
AllProbesFailed(p) ==
    /\ cycle[p] >= 1
    /\ \A s \in Servers : fut[p][s].state = "done" /\ fut[p][s].kind # "data"

\* C10: a cycle in which every probe fails is over with exactly one Error
\* row per server and a summary of mean offset 0 and jitter 0.
C10_AllTimeoutsCycle ==
    \A p \in Procs :
        CycleOver(p) /\ AllProbesFailed(p) =>
            /\ \A s \in Servers :
                 /\ Cardinality(RowsOf(p, cycle[p], s)) = 1
                 /\ \A i \in RowsOf(p, cycle[p], s) : store[i].status = "Error"
            /\ pc[p] = "sleep"
            /\ jitter[p] = Zero
            /\ offset_mean[p] = Zero

\* Positions of the Online rows of cycle k of process p.
OnlineRowsOf(p, k) ==
    {i \in 1..Len(store) :
        store[i].proc = p /\ store[i].cycle = k /\ store[i].status = "Online"}

RECURSIVE SumDelay(_)
SumDelay(R) ==
    IF R = {} THEN 0
    ELSE LET i == CHOOSE x \in R : TRUE
         IN store[i].delay_ms + SumDelay(R \ {i})

RECURSIVE SumSqDelay(_)
SumSqDelay(R) ==
    IF R = {} THEN 0
    ELSE LET i == CHOOSE x \in R : TRUE
         IN store[i].delay_ms * store[i].delay_ms + SumSqDelay(R \ {i})

RECURSIVE SumOffset(_)
SumOffset(R) ==
    IF R = {} THEN 0
    ELSE LET i == CHOOSE x \in R : TRUE
         IN store[i].offset_ms + SumOffset(R \ {i})

\* C11: the jitter of a cycle is 0 when fewer than two rows of that cycle
\* are Online, and otherwise the sample standard deviation of the delay_ms
\* of exactly the Online rows of that cycle (stated on the variance, which
\* the model keeps as the fraction of n sum(d^2) - sum(d)^2 over n (n - 1)).
C11_JitterOverOnlineDelays ==
    \A p \in Procs :
        pc[p] \in {"summary", "sleep"} =>
            LET R == OnlineRowsOf(p, cycle[p])
                n == Cardinality(R)
            IN /\ jitter[p].den > 0
               /\ IF n < 2
                  THEN jitter[p].num = 0
                  ELSE /\ jitter[p].den = n * (n - 1)
                       /\ jitter[p].num =
                              n * SumSqDelay(R) - SumDelay(R) * SumDelay(R)

\* A summary over two Online rows of different delays, one of them negative.
C11_Witness ==
    /\ pc[1] = "summary"
    /\ Cardinality(OnlineRowsOf(1, cycle[1])) = 2
    /\ \E i \in OnlineRowsOf(1, cycle[1]) : store[i].delay_ms < 0
    /\ jitter[1].num > 0

\* C12: the mean offset of a cycle is 0 when no row of that cycle is Online,
\* and otherwise the sum of the offset_ms of the Online rows of that cycle
\* over their number.
C12_MeanOffsetOverOnline ==
    \A p \in Procs :
        pc[p] \in {"summary", "sleep"} =>
            LET R == OnlineRowsOf(p, cycle[p])
                n == Cardinality(R)
            IN /\ offset_mean[p].den > 0
               /\ IF n = 0
                  THEN offset_mean[p].num = 0
                  ELSE offset_mean[p].num * n = SumOffset(R) * offset_mean[p].den

\* A summary of a cycle with one Online row and one Error row.
C12_Witness ==
    /\ pc[1] = "summary"
    /\ Cardinality(OnlineRowsOf(1, cycle[1])) = 1
    /\ \E s \in Servers : fut[1][s].kind = "none"
    /\ offset_mean[1].num # 0

\* C13: within a cycle each server is probed once: a cycle has at most one
\* row per server, the start of a cycle issues one probe per server, a
\* probe that appends its Error row is finished by it, and a finished probe
\* is issued again only by the start of the next cycle.
C13_OneProbePerServerAndCycle ==
    /\ [](\A p \in Procs : \A k \in 1..cycle[p] : \A s \in Servers :
            Cardinality(RowsOf(p, k, s)) <= 1)
    /\ [][\A p \in Procs : \A s \in Servers :
            /\ (fut[p][s].state = "done" /\ fut'[p][s].state # "done") =>
                   /\ cycle'[p] = cycle[p] + 1
                   /\ pc[p] = "sleep"
            /\ cycle'[p] # cycle[p] => fut'[p][s].state \in {"running", "queued"}
            /\ (Appends(p, s) /\ NewRow.status = "Error") =>
                   fut'[p][s].state = "done"]_vars

\* A server whose probe failed in the first cycle is probed again in the
\* second.
C13_Witness ==
    /\ cycle[1] = 2
    /\ \E s \in Servers :
         /\ fut[1][s].state = "running"
         /\ \E i \in RowsOf(1, 1, s) : store[i].status = "Error"

\* C19: the probes of a cycle are launched together: the start of a cycle
\* puts one probe per server in flight, and no probe is ever left queued
\* behind another one.
C19_FullFanOut ==
    /\ [](\A p \in Procs : Queued(p) = {})
    /\ [][\A p \in Procs :
            cycle'[p] # cycle[p] =>
                \A s \in Servers : fut'[p][s].state = "running"]_vars

\* A slow server is still being waited for while the probe of another
\* server, launched with it, returned at the start of the cycle.
C19_Witness ==
    \E s1, s2 \in Servers :
        /\ fut[1][s1].state = "running"
        /\ clock > cycle_start[1]
        /\ fut[1][s2].state = "done"
        /\ fut[1][s2].kind = "data"
        /\ fut[1][s2].timestamp = cycle_start[1]

\* C18: samples are streamed to the store: the Online row of a returned
\* probe can be appended whatever the other probes of the cycle are doing,
\* the Error row of a failed probe is in the store once the probe has
\* finished, and every server has its row of the cycle when the summary is
\* computed.
C18_StreamedToStore ==
    \A p \in Procs : \A s \in Servers :
        /\ ( /\ pc[p] = "collect"
             /\ fut[p][s].state = "done"
             /\ fut[p][s].kind = "data"
             /\ ~fut[p][s].consumed ) => ENABLED CollectData(p, s)
        /\ (fut[p][s].state = "done" /\ fut[p][s].kind = "none") =>
               RowsOf(p, cycle[p], s) # {}
        /\ pc[p] \in {"summary", "sleep"} => RowsOf(p, cycle[p], s) # {}

\* The Online row of one server is in the store while the probe of another
\* server of the same cycle is still in flight.
C18_Witness ==
    \E s1, s2 \in Servers :
        /\ pc[1] = "collect"
        /\ fut[1][s1].state = "running"
        /\ \E i \in RowsOf(1, cycle[1], s2) : store[i].status = "Online"

\* Servers that have a row in the store.
Stored == {store[i].server : i \in 1..Len(store)}

\* Position of the row of server s that has the greatest id.
LastOf(s) ==
    CHOOSE i \in 1..Len(store) :
        /\ store[i].server = s
        /\ \A j \in 1..Len(store) :
             store[j].server = s => store[j].id <= store[i].id

\* The number a three-decimal string stands for, in thousandths.
Thousandths(f) == (IF f.neg THEN 0 - 1 ELSE 1) * (f.whole * 1000 + f.frac)

\* Place of a server in the display order; other servers come last.
DisplayRank(s) ==
    IF \E i \in 1..Len(preferred_order) : preferred_order[i] = s
    THEN CHOOSE i \in 1..Len(preferred_order) : preferred_order[i] = s
    ELSE Len(preferred_order) + 1

\* C14: the realtime query returns one entry per server that has a row,
\* taken from the last written (maximum id) row of that server, in the
\* display order.
C14_RealtimeLatestPerServer ==
    LET out == get_realtime_data IN
    /\ Len(out) = Cardinality(Stored)
    /\ \A s \in Stored :
         \E k \in 1..Len(out) :
            /\ out[k].server = s
            /\ \A l \in 1..Len(out) : out[l].server = s => l = k
            /\ out[k].timestamp = store[LastOf(s)].timestamp
            /\ out[k].status = store[LastOf(s)].status
            /\ Thousandths(out[k].offset_ms) = store[LastOf(s)].offset_ms
            /\ Thousandths(out[k].delay_ms) = store[LastOf(s)].delay_ms
    /\ \A k, l \in 1..Len(out) :
         k < l => DisplayRank(out[k].server) < DisplayRank(out[l].server)

\* Both servers have two rows, the last row of each differs from its first,
\* and the server that leads the roster comes last in the answer.
C14_Witness ==
    /\ \A s \in Servers :
         \E i, j \in 1..Len(store) :
            /\ i < j
            /\ store[i].server = s
            /\ store[j].server = s
            /\ store[i].status # store[j].status
    /\ Len(get_realtime_data) = 2
    /\ get_realtime_data[2].server = ntp_servers[1]

NotInRoster == "time.google.com"

\* The k-th most recently written row of a server (k = 1 is the newest).
KthNewest(server, k) ==
    CHOOSE i \in RowsFor(server) :
        Cardinality({j \in RowsFor(server) : store[j].id >= store[i].id}) = k

ExchangeOf(i) == fut[store[i].proc][store[i].server].response

\* C16: an Online row holds offset = ((T2 - T1) + (T3 - T4)) / 2,
\* delay = (T4 - T1) - (T3 - T2) and response time = T3 - T2 of its
\* exchange, in ms (columns in thousandths of a ms); the delay is stored
\* and enters the jitter as it is, negative or not.
C16_ClosedFormOffsetDelay ==
    /\ \A i \in 1..Len(store) :
         store[i].status = "Online" =>
            LET r == ExchangeOf(i) IN
            /\ 2 * store[i].offset_ms = ((r.T2 - r.T1) + (r.T3 - r.T4)) * 1000
            /\ store[i].delay_ms = ((r.T4 - r.T1) - (r.T3 - r.T2)) * 1000
            /\ store[i].response_time_ms = (r.T3 - r.T2) * 1000
    /\ Len(delays[1]) = Len(store)
    /\ \A i \in 1..Len(store) : delays[1][i] = store[i].delay_ms
    /\ pc[1] \in {"summary", "sleep"} =>
         jitter[1] = Jitter([i \in 1..Len(store) |-> store[i].delay_ms])

\* Both rows are stored and summarised, one delay is negative and the other
\* positive.
C16_Witness ==
    /\ pc[1] = "sleep"
    /\ \E i, j \in 1..Len(store) :
         /\ store[i].status = "Online"
         /\ store[i].delay_ms < 0
         /\ store[j].delay_ms > 0
    /\ jitter[1] # Zero

\* C17: a probe in flight can always end by failing (the wait for the server
\* is bounded), and every cycle that has started reaches its summary and
\* then its sleep.
C17_CycleReachesSleep ==
    /\ [](\A p \in Procs : \A s \in InFlight(p) : ENABLED QueryFail(p, s))
    /\ \A p \in Procs : \A k \in 1..MaxCycles :
         (pc[p] = "collect" /\ cycle[p] = k) ~>
             (pc[p] = "sleep" /\ cycle[p] = k)

====
